---- MODULE Spec2Model ----
(***************************************************************************)
(* MinuteMate: the recording / processing lifecycle of app.py together     *)
(* with the capture thread of audio_listener.py.                           *)
(*                                                                         *)
(* The Flask development server started by app.run (app.py:159) serves     *)
(* every request on a thread of its own, so a request handler is a process *)
(* whose steps are the places where it reads or writes the module globals  *)
(* (app_state, listener) or a field of an AudioListener.  Capture threads  *)
(* (AudioListener._recording_loop) and pipeline threads                    *)
(* (process_audio_pipeline) are processes as well.                         *)
(***************************************************************************)
EXTENDS Integers, Sequences, FiniteSets, TLC

\* ---------------------------------------------------------------- bounds
\* Number of meeting ids uuid.uuid4() hands out in one run.
MaxSessions == 2
\* Number of chunks a frame buffer may hold before the device stalls.
MaxChunks == 2
\* Number of /stop_recording requests in flight at once.
MaxStopReq == 1
\* Number of distinct non-empty transcripts the transcription may return.
MaxText == 1

\* Last reading of the simulated clock, in seconds.
MaxClock == 64

\* Number of samples in a chunk handed to the silence test.
MaxSamples == 2

\* Python's None, for the listener global and current_meeting_id.
None == 0

\* audio_listener.py:24: self.SILENCE_SECONDS.
SILENCE_SECONDS == 30

\* audio_listener.py:23: self.SILENCE_THRESHOLD.
SILENCE_THRESHOLD == 500

Sessions == 1..MaxSessions
StopReqs == 1..MaxStopReq

\* ------------------------------------------------------------------ state
VARIABLES
    status,              \* app_state["status"]
    current_meeting_id,  \* app_state["current_meeting_id"]
    minutes_data,        \* app_state["minutes_data"], NoResult where no key
    listener,            \* the global listener: None or the AudioListener of a session
    nextId,              \* how many meeting ids have been issued
    hpc,                 \* hpc[m]: position of the handler that issued id m
                         \* (sr_*: start_recording, up_*: upload_audio)
    orig,                \* orig[m]: original_save_method captured by handler m
    saveAttr,            \* saveAttr[k]: the _save_recording attribute of listener k
    recording,           \* recording[k]: AudioListener.recording
    frames,              \* frames[k]: AudioListener.frames, a sequence of chunks
    silence_start_time,  \* silence_start_time[k]: TRUE when not None
    fileExists,          \* fileExists[m]: the audio file of id m is on disk
    cpc,                 \* cpc[m]: position of the capture thread started by handler m
                         \* ("exited": it left the loop at line 46, "failed": through
                         \* the except clause of line 67)
    clis,                \* clis[m]: the listener (self) that thread runs on
    stream,              \* stream[m]: the device stream of that thread ("none"
                         \* before p.open returns, then "open", then "closed")
    wav,                 \* wav[k]: the frames written to the output file of listener k
    ppc,                 \* ppc[m][j]: position of the pipeline for id j dispatched by m
    ptext,               \* ptext[m][j]: transcription_result["text"] of that pipeline
    spc,                 \* spc[r]: position of /stop_recording request slot r
    stopAcc,             \* listeners on which an accepted /stop_recording called stop()
    writes,              \* writes[j]: number of assignments to minutes_data[j]
    reply,               \* the last response a refused request or /minutes got
    clock,               \* time.time() of a listener run against a simulated clock
    t_recording,         \* that listener's recording flag
    t_silence_start_time,  \* its silence_start_time: None or a clock reading
    last_sound,          \* when it last read a chunk that was not silent (None: never)
    last_read,           \* when it last read a chunk (None: never)
    audio_data,          \* the samples of a chunk handed to the silence test
    rms_verdict,         \* what the test made of it: "none" yet, "silent", "loud"
    engine_in,           \* a call of transcribe_audio_with_timestamps: what it meets
    engine_out,          \* and what came of it
    stop_seen            \* the first stop() a caller made on a recording listener
                         \* run on its own: what the buffer held when it returned

\* The state of the application and of its listeners and threads.
mainVars == <<status, current_meeting_id, minutes_data, listener, nextId, hpc, orig,
              saveAttr, recording, frames, silence_start_time, fileExists, cpc, clis,
              stream, wav, ppc, ptext, spc, stopAcc, writes>>

\* What the clients and the harnesses below observe; no step of a handler
\* that was accepted, of a capture thread or of a pipeline thread touches it.
timeVars == <<clock, t_recording, t_silence_start_time, last_sound, last_read>>
unitVars == <<audio_data, rms_verdict, engine_in, engine_out>>
probeVars == <<reply, timeVars, unitVars, stop_seen>>

vars == <<mainVars, probeVars>>

appVars == <<status, current_meeting_id, minutes_data, listener, writes>>
lisVars == <<saveAttr, recording, frames, silence_start_time>>
capVars == <<cpc, clis>>
devVars == <<stream, wav>>
pipeVars == <<ppc, ptext>>

\* A reference to a callable: the bound method AudioListener._save_recording of
\* listener i, or the closure save_and_process made by handler i.
Method(k) == <<"method", k>>
Closure(m) == <<"closure", m>>
NoCallable == <<"none", 0>>

\* ------------------------------------------------------- result values
NoResult == [kind |-> "absent"]
ErrorResult == [kind |-> "error", error |-> "Transcription failed."]

\* What whisper.transcribe returns for transcript token t (0: no text).
Transcription(t) == [text |-> t, segments |-> <<"segments", t>>]

\* transcription_engine.py:34, 63: the empty dictionary.
EmptyDict == [empty |-> TRUE]

\* The step of transcribe_audio_with_timestamps that raises, if any.
Failures == {"none", "load_audio", "load_model", "transcribe"}

\* transcribe_audio_with_timestamps without its try block: a step that
\* raises takes the exception to the caller.
transcribe_unguarded(exists, fails, result) ==
    IF exists /\ fails = "none"
    THEN [ret |-> result, calls |-> 1, raised |-> FALSE]
    ELSE [ret |-> EmptyDict, calls |-> IF exists /\ fails = "transcribe" THEN 1 ELSE 0,
          raised |-> TRUE]

\* transcribe_audio_with_timestamps on a path that exists or not, with the
\* step that raises and the result whisper.transcribe would return: what the
\* function returns, how often it called whisper.transcribe, and whether an
\* exception left it.
transcribe_audio_with_timestamps(exists, fails, result) ==
    IF ~exists
    THEN [ret |-> EmptyDict, calls |-> 0, raised |-> FALSE]
    ELSE CASE fails \in {"load_audio", "load_model"} ->
                  [ret |-> EmptyDict, calls |-> 0, raised |-> FALSE]
           [] fails = "transcribe" ->
                  [ret |-> EmptyDict, calls |-> 1, raised |-> FALSE]
           [] OTHER ->
                  [ret |-> result, calls |-> 1, raised |-> FALSE]

\* app.py:44: not transcription_result or not transcription_result.get("text").
TranscriptionFailed(transcription_result) ==
    transcription_result = EmptyDict \/ transcription_result.text = 0

\* process_transcript: the summary, action items and dates of a transcript.
process_transcript(t) ==
    [summary |-> <<"summary", t>>,
     action_items |-> <<"action_items", t>>,
     reminders |-> <<"reminders", t>>]

\* final_minutes with the action items stored where the summary belongs.
final_minutes_mislabelled(meeting_id, transcription_result, processed_data) ==
    [kind |-> "minutes",
     meeting_id |-> meeting_id,
     full_transcript |-> transcription_result.text,
     summary |-> processed_data.action_items,
     action_items |-> processed_data.action_items,
     reminders |-> processed_data.reminders,
     timed_transcript |-> transcription_result.segments]

\* final_minutes of process_audio_pipeline.
final_minutes(meeting_id, transcription_result, processed_data) ==
    [kind |-> "minutes",
     meeting_id |-> meeting_id,
     full_transcript |-> transcription_result.text,
     summary |-> processed_data.summary,
     action_items |-> processed_data.action_items,
     reminders |-> processed_data.reminders,
     timed_transcript |-> transcription_result.segments]

\* A response: the route that answered, the meeting id asked for, the body.
Response(route, id, body) == [route |-> route, id |-> id, body |-> body]
NoReply == Response("none", None, [kind |-> "none"])

\* get_minutes without the "if not minutes" test of app.py:152.
get_minutes_unchecked(meeting_id) ==
    minutes_data[meeting_id]

\* get_minutes: the stored minutes, or 404.
get_minutes(meeting_id) ==
    IF minutes_data[meeting_id] = NoResult
    THEN [kind |-> "404"]
    ELSE minutes_data[meeting_id]

\* ------------------------------------------------------------------- init
\* The module globals of app.py as the import leaves them; no listener, no
\* thread and no request yet.
AppInit ==
    /\ status = "idle"
    /\ current_meeting_id = None
    /\ minutes_data = [j \in Sessions |-> NoResult]
    /\ listener = None
    /\ nextId = 0
    /\ hpc = [m \in Sessions |-> "none"]
    /\ orig = [m \in Sessions |-> NoCallable]
    /\ saveAttr = [k \in Sessions |-> Method(k)]
    /\ recording = [k \in Sessions |-> FALSE]
    /\ frames = [k \in Sessions |-> <<>>]
    /\ silence_start_time = [k \in Sessions |-> FALSE]
    /\ fileExists = [m \in Sessions |-> FALSE]
    /\ cpc = [m \in Sessions |-> "none"]
    /\ clis = [m \in Sessions |-> None]
    /\ stream = [m \in Sessions |-> "none"]
    /\ wav = [k \in Sessions |-> <<>>]
    /\ ppc = [m \in Sessions |-> [j \in Sessions |-> "none"]]
    /\ ptext = [m \in Sessions |-> [j \in Sessions |-> 0]]
    /\ spc = [r \in StopReqs |-> "idle"]
    /\ stopAcc = {}
    /\ writes = [j \in Sessions |-> 0]

\* No chunk is under test and no call of the transcription is watched.
NotCalled == [done |-> FALSE, ret |-> EmptyDict, calls |-> 0, raised |-> FALSE]

UnitIdle ==
    /\ audio_data = <<>>
    /\ rms_verdict = "none"
    /\ engine_in = [exists |-> FALSE, fails |-> "none", result |-> EmptyDict]
    /\ engine_out = NotCalled

\* No caller has stopped a listener yet.
NoStop == [called |-> FALSE, len |-> 0, reading |-> 0]

\* No listener runs against the simulated clock.
TimeIdle ==
    /\ clock = 1
    /\ t_recording = FALSE
    /\ t_silence_start_time = None
    /\ last_sound = None
    /\ last_read = None

Init ==
    /\ AppInit
    /\ reply = NoReply
    /\ TimeIdle
    /\ UnitIdle
    /\ stop_seen = NoStop

\* --------------------------------------------------- AudioListener methods
\* AudioListener.start on listener k, called by handler m: a no-op when the
\* listener is recording, otherwise the flag is set and a capture thread
\* (named after the calling handler) starts.
start(k, m) ==
    IF recording[k]
    THEN UNCHANGED <<recording, cpc, clis>>
    ELSE /\ recording' = [recording EXCEPT ![k] = TRUE]
         /\ cpc' = [cpc EXCEPT ![m] = "open"]
         /\ clis' = [clis EXCEPT ![m] = k]

\* AudioListener.stop on listener k: clears the flag (a no-op when clear).
stop(k) ==
    recording' = [recording EXCEPT ![k] = FALSE]

\* ------------------------------------------------------- /start_recording
\* app.py:118-122: the idle check passes and a fresh meeting id is drawn.
StartRecordingCheck ==
    /\ status = "idle"
    /\ nextId < MaxSessions
    /\ nextId' = nextId + 1
    /\ hpc' = [hpc EXCEPT ![nextId + 1] = "sr_create"]
    /\ UNCHANGED probeVars
    /\ UNCHANGED devVars
    /\ UNCHANGED <<appVars, orig, lisVars, fileExists, capVars, pipeVars, spc, stopAcc>>

\* app.py:118-119: 409 "Application is not idle."
StartRecordingBusy ==
    /\ status # "idle"
    /\ UNCHANGED <<timeVars, unitVars, stop_seen>>
    /\ reply' = Response("start_recording", None, [kind |-> "409"])
    /\ UNCHANGED mainVars

\* app.py:123: listener = AudioListener(output_filename=...).
SrCreate(m) ==
    /\ hpc[m] = "sr_create"
    /\ listener' = m
    /\ hpc' = [hpc EXCEPT ![m] = "sr_orig"]
    /\ UNCHANGED probeVars
    /\ UNCHANGED devVars
    /\ UNCHANGED <<status, current_meeting_id, minutes_data, writes, nextId, orig,
                   lisVars, fileExists, capVars, pipeVars, spc, stopAcc>>

\* app.py:125: original_save_method = listener._save_recording, read through
\* the global; AttributeError (a 500) when a pipeline has cleared it.
SrGetSave(m) ==
    /\ hpc[m] = "sr_orig"
    /\ IF listener = None
       THEN /\ hpc' = [hpc EXCEPT ![m] = "error"]
            /\ UNCHANGED orig
       ELSE /\ orig' = [orig EXCEPT ![m] = saveAttr[listener]]
            /\ hpc' = [hpc EXCEPT ![m] = "sr_wrap"]
    /\ UNCHANGED probeVars
    /\ UNCHANGED devVars
    /\ UNCHANGED <<appVars, nextId, lisVars, fileExists, capVars, pipeVars, spc, stopAcc>>

\* app.py:126-131: listener._save_recording = save_and_process.
SrSetSave(m) ==
    /\ hpc[m] = "sr_wrap"
    /\ IF listener = None
       THEN /\ hpc' = [hpc EXCEPT ![m] = "error"]
            /\ UNCHANGED saveAttr
       ELSE /\ saveAttr' = [saveAttr EXCEPT ![listener] = Closure(m)]
            /\ hpc' = [hpc EXCEPT ![m] = "sr_start"]
    /\ UNCHANGED probeVars
    /\ UNCHANGED devVars
    /\ UNCHANGED <<appVars, nextId, orig, recording, frames, silence_start_time,
                   fileExists, capVars, pipeVars, spc, stopAcc>>

\* app.py:133: listener.start().
SrStart(m) ==
    /\ hpc[m] = "sr_start"
    /\ IF listener = None
       THEN /\ hpc' = [hpc EXCEPT ![m] = "error"]
            /\ UNCHANGED <<recording, cpc, clis>>
       ELSE /\ start(listener, m)
            /\ hpc' = [hpc EXCEPT ![m] = "sr_status"]
    /\ UNCHANGED probeVars
    /\ UNCHANGED devVars
    /\ UNCHANGED <<appVars, nextId, orig, saveAttr, frames, silence_start_time,
                   fileExists, pipeVars, spc, stopAcc>>

\* app.py:134-135: status = "recording"; current_meeting_id = meeting_id.
\* (Only /status reads current_meeting_id, so the two stores are one step.)
SrSetStatus(m) ==
    /\ hpc[m] = "sr_status"
    /\ status' = "recording"
    /\ current_meeting_id' = m
    /\ hpc' = [hpc EXCEPT ![m] = "sr_done"]
    /\ UNCHANGED probeVars
    /\ UNCHANGED devVars
    /\ UNCHANGED <<minutes_data, listener, writes, nextId, orig, lisVars,
                   fileExists, capVars, pipeVars, spc, stopAcc>>

\* ----------------------------------------------------------- /upload_audio
\* app.py:83-99: the idle check passes, the file is valid and is saved under
\* a fresh meeting id.
UploadCheck ==
    /\ status = "idle"
    /\ nextId < MaxSessions
    /\ nextId' = nextId + 1
    /\ hpc' = [hpc EXCEPT ![nextId + 1] = "up_status"]
    /\ fileExists' = [fileExists EXCEPT ![nextId + 1] = TRUE]
    /\ UNCHANGED probeVars
    /\ UNCHANGED devVars
    /\ UNCHANGED <<appVars, orig, lisVars, capVars, pipeVars, spc, stopAcc>>

\* app.py:83-84: 409 "Application is busy."; app.py:86-91, 111-112: 400 for a
\* missing or disallowed file when the idle check has passed.
UploadRejected ==
    /\ UNCHANGED <<timeVars, unitVars, stop_seen>>
    /\ reply' = Response("upload_audio", None,
                         [kind |-> IF status # "idle" THEN "409" ELSE "400"])
    /\ UNCHANGED mainVars

\* app.py:102-103: status = "processing"; current_meeting_id = meeting_id.
UploadSetStatus(m) ==
    /\ hpc[m] = "up_status"
    /\ status' = "processing"
    /\ current_meeting_id' = m
    /\ hpc' = [hpc EXCEPT ![m] = "up_spawn"]
    /\ UNCHANGED probeVars
    /\ UNCHANGED devVars
    /\ UNCHANGED <<minutes_data, listener, writes, nextId, orig, lisVars,
                   fileExists, capVars, pipeVars, spc, stopAcc>>

\* app.py:104-105: the pipeline thread starts on the uploaded file.
UploadSpawn(m) ==
    /\ hpc[m] = "up_spawn"
    /\ ppc' = [ppc EXCEPT ![m][m] = "transcribe"]
    /\ hpc' = [hpc EXCEPT ![m] = "up_done"]
    /\ UNCHANGED probeVars
    /\ UNCHANGED devVars
    /\ UNCHANGED <<appVars, nextId, orig, lisVars, fileExists, capVars, ptext,
                   spc, stopAcc>>

\* ---------------------------------------------------------- /stop_recording
\* app.py:144: the guard of stop_recording.
StopGuard ==
    status = "recording" /\ listener # None

\* StopRejected with the refusal also putting status back to "idle".
StopRejected_resets(r) ==
    /\ spc[r] = "idle"
    /\ ~StopGuard
    /\ UNCHANGED <<timeVars, unitVars, stop_seen>>
    /\ reply' = Response("stop_recording", None, [kind |-> "400"])
    /\ status' = "idle"
    /\ UNCHANGED <<current_meeting_id, minutes_data, listener, nextId, hpc, orig,
                   saveAttr, recording, frames, silence_start_time, fileExists, cpc,
                   clis, stream, wav, ppc, ptext, spc, stopAcc, writes>>

\* app.py:144-145: 400 "Not currently recording."
StopRejected(r) ==
    /\ spc[r] = "idle"
    /\ ~StopGuard
    /\ UNCHANGED <<timeVars, unitVars, stop_seen>>
    /\ reply' = Response("stop_recording", None, [kind |-> "400"])
    /\ UNCHANGED mainVars

\* ------------------------------------------------------ /minutes/<meeting_id>
\* app.py:150-155: one dictionary lookup, then the answer.
GetMinutes(meeting_id) ==
    /\ UNCHANGED <<timeVars, unitVars, stop_seen>>
    /\ reply' = Response("minutes", meeting_id, get_minutes(meeting_id))
    /\ UNCHANGED mainVars

\* app.py:144: the guard passes.
StopCheck(r) ==
    /\ spc[r] = "idle"
    /\ StopGuard
    /\ spc' = [spc EXCEPT ![r] = "call"]
    /\ UNCHANGED probeVars
    /\ UNCHANGED devVars
    /\ UNCHANGED <<appVars, nextId, hpc, orig, lisVars, fileExists, capVars,
                   pipeVars, stopAcc>>

\* app.py:146: listener.stop(), the global read again; AttributeError (a 500)
\* when a pipeline has cleared it since the guard.
StopCall(r) ==
    /\ spc[r] = "call"
    /\ IF listener = None
       THEN /\ spc' = [spc EXCEPT ![r] = "idle"]
            /\ UNCHANGED <<recording, stopAcc>>
       ELSE /\ stop(listener)
            /\ stopAcc' = stopAcc \cup {listener}
            /\ spc' = [spc EXCEPT ![r] = "set"]
    /\ UNCHANGED probeVars
    /\ UNCHANGED devVars
    /\ UNCHANGED <<appVars, nextId, hpc, orig, saveAttr, frames, silence_start_time,
                   fileExists, capVars, pipeVars>>

\* app.py:147: status = "processing".
StopSet(r) ==
    /\ spc[r] = "set"
    /\ status' = "processing"
    /\ spc' = [spc EXCEPT ![r] = "idle"]
    /\ UNCHANGED probeVars
    /\ UNCHANGED devVars
    /\ UNCHANGED <<current_meeting_id, minutes_data, listener, writes, nextId, hpc,
                   orig, lisVars, fileExists, capVars, pipeVars, stopAcc>>

\* ------------------------------------------- AudioListener._recording_loop
\* The listener whose bound _save_recording ends the chain of callable c.
RECURSIVE BottomListener(_)
BottomListener(c) ==
    IF c[1] = "method" THEN c[2] ELSE BottomListener(orig[c[2]])

\* The save_and_process closures on the chain of callable c.
RECURSIVE ChainClosures(_)
ChainClosures(c) ==
    IF c[1] = "method" THEN {} ELSE {c[2]} \cup ChainClosures(orig[c[2]])

\* audio_listener.py:39-43: p.open succeeds.
OpenStream(m) ==
    /\ cpc[m] = "open"
    /\ cpc' = [cpc EXCEPT ![m] = "loop"]
    /\ stream' = [stream EXCEPT ![m] = "open"]
    /\ UNCHANGED probeVars
    /\ UNCHANGED wav
    /\ UNCHANGED <<appVars, nextId, hpc, orig, lisVars, fileExists, clis, pipeVars,
                   spc, stopAcc>>

\* audio_listener.py:39-43, 67-68: p.open raises; control goes to finally.
OpenFails(m) ==
    /\ cpc[m] = "open"
    /\ cpc' = [cpc EXCEPT ![m] = "except"]
    /\ UNCHANGED probeVars
    /\ UNCHANGED devVars
    /\ UNCHANGED <<appVars, nextId, hpc, orig, lisVars, fileExists, clis,
                   pipeVars, spc, stopAcc>>

\* audio_listener.py:46, 63-64: the loop test; on exit the stream is closed.
LoopTest(m) ==
    /\ cpc[m] = "loop"
    /\ IF recording[clis[m]]
       THEN /\ Len(frames[clis[m]]) < MaxChunks
            /\ cpc' = [cpc EXCEPT ![m] = "read"]
            /\ UNCHANGED stream
       ELSE /\ cpc' = [cpc EXCEPT ![m] = "save"]
            /\ stream' = [stream EXCEPT ![m] = "closed"]
    /\ UNCHANGED probeVars
    /\ UNCHANGED wav
    /\ UNCHANGED <<appVars, nextId, hpc, orig, lisVars, fileExists, clis, pipeVars,
                   spc, stopAcc>>

\* audio_listener.py:54-61: the silence logic for one chunk.  silent is
\* rms < SILENCE_THRESHOLD; expired is time.time() - silence_start_time >
\* SILENCE_SECONDS.
SilenceLogic(k, silent, expired) ==
    IF silent
    THEN IF ~silence_start_time[k]
         THEN /\ silence_start_time' = [silence_start_time EXCEPT ![k] = TRUE]
              /\ UNCHANGED recording
         ELSE IF expired
              THEN /\ stop(k)
                   /\ UNCHANGED silence_start_time
              ELSE UNCHANGED <<silence_start_time, recording>>
    ELSE /\ silence_start_time' = [silence_start_time EXCEPT ![k] = FALSE]
         /\ UNCHANGED recording

\* audio_listener.py:47: the data stream.read returns to thread m, told
\* apart by the place n it takes in the buffer.
Chunk(m, n) == <<m, n>>

\* audio_listener.py:47-61: one chunk is read, appended and classified.
ReadChunk(m) ==
    /\ cpc[m] = "read"
    /\ frames' = [frames EXCEPT ![clis[m]] = Append(@, Chunk(m, Len(@) + 1))]
    /\ \E silent \in BOOLEAN, expired \in BOOLEAN :
           SilenceLogic(clis[m], silent, expired)
    /\ cpc' = [cpc EXCEPT ![m] = "loop"]
    /\ UNCHANGED probeVars
    /\ UNCHANGED devVars
    /\ UNCHANGED <<appVars, nextId, hpc, orig, saveAttr, fileExists, clis,
                   pipeVars, spc, stopAcc>>

\* audio_listener.py:47, 67-68: stream.read raises; control goes to finally
\* past stop_stream and close.
ReadFails(m) ==
    /\ cpc[m] = "read"
    /\ cpc' = [cpc EXCEPT ![m] = "except"]
    /\ UNCHANGED probeVars
    /\ UNCHANGED devVars
    /\ UNCHANGED <<appVars, nextId, hpc, orig, lisVars, fileExists, clis,
                   pipeVars, spc, stopAcc>>

\* audio_listener.py:72-86: AudioListener._save_recording of listener b
\* writes the buffered frames to its file and clears the buffer, or does
\* nothing when the buffer is empty.
SavedFiles(b) ==
    IF frames[b] = <<>> THEN fileExists ELSE [fileExists EXCEPT ![b] = TRUE]

\* audio_listener.py:83: wf.writeframes(b''.join(list(self.frames))).
WrittenFrames(b) ==
    IF frames[b] = <<>> THEN wav ELSE [wav EXCEPT ![b] = frames[b]]

\* app.py:128: the ids whose save_and_process, on the chain of callable c,
\* finds its output file once the chain's bound method has run.
Dispatched(c) ==
    {j \in ChainClosures(c) : SavedFiles(BottomListener(c))[j]}

\* audio_listener.py:70 and app.py:126-130: the finally clause calls
\* self._save_recording(), whatever callable the attribute holds by now; each
\* save_and_process on its chain starts a pipeline thread when its file exists.
\* (The call is one step: the file it writes is read only by the pipelines it
\* starts.)
SaveRecording(m) ==
    /\ cpc[m] \in {"save", "except"}
    /\ LET c == saveAttr[clis[m]]
           b == BottomListener(c)
       IN /\ fileExists' = SavedFiles(b)
          /\ wav' = WrittenFrames(b)
          /\ frames' = [frames EXCEPT ![b] = <<>>]
          /\ ppc' = [ppc EXCEPT ![m] =
                        [j \in Sessions |->
                            IF j \in Dispatched(c) THEN "transcribe" ELSE ppc[m][j]]]
    /\ cpc' = [cpc EXCEPT ![m] = IF cpc[m] = "save" THEN "exited" ELSE "failed"]
    /\ UNCHANGED probeVars
    /\ UNCHANGED stream
    /\ UNCHANGED <<appVars, nextId, hpc, orig, saveAttr, recording,
                   silence_start_time, clis, ptext, spc, stopAcc>>

\* ------------------------------------------------- process_audio_pipeline
\* app.py:43-44: transcribe_audio_with_timestamps returns and the result is
\* tested; text 0 stands for empty text, and for no text at all.
Transcribe(m, j) ==
    /\ ppc[m][j] = "transcribe"
    /\ \E fails \in Failures, t \in 0..MaxText :
          LET transcription_result ==
                  transcribe_audio_with_timestamps(fileExists[j], fails,
                                                   Transcription(t)).ret
              failed == TranscriptionFailed(transcription_result)
          IN /\ ptext' = [ptext EXCEPT ![m][j] =
                             IF failed THEN 0 ELSE transcription_result.text]
             /\ ppc' = [ppc EXCEPT ![m][j] = IF failed THEN "fail_idle" ELSE "process"]
    /\ UNCHANGED probeVars
    /\ UNCHANGED devVars
    /\ UNCHANGED <<appVars, nextId, hpc, orig, lisVars, fileExists, capVars, spc,
                   stopAcc>>

\* app.py:46: status = "idle" on the failure path.
FailSetIdle(m, j) ==
    /\ ppc[m][j] = "fail_idle"
    /\ status' = "idle"
    /\ ppc' = [ppc EXCEPT ![m][j] = "fail_store"]
    /\ UNCHANGED probeVars
    /\ UNCHANGED devVars
    /\ UNCHANGED <<current_meeting_id, minutes_data, listener, writes, nextId, hpc,
                   orig, lisVars, fileExists, capVars, ptext, spc, stopAcc>>

\* app.py:47: minutes_data[meeting_id] = {"error": ...}.
FailStore(m, j) ==
    /\ ppc[m][j] = "fail_store"
    /\ minutes_data' = [minutes_data EXCEPT ![j] = ErrorResult]
    /\ writes' = [writes EXCEPT ![j] = @ + 1]
    /\ ppc' = [ppc EXCEPT ![m][j] = "fail_clear"]
    /\ UNCHANGED probeVars
    /\ UNCHANGED devVars
    /\ UNCHANGED <<status, current_meeting_id, listener, nextId, hpc, orig, lisVars,
                   fileExists, capVars, ptext, spc, stopAcc>>

\* app.py:48, 64: if listener: listener = None; the thread ends.
ClearListener(m, j) ==
    /\ ppc[m][j] \in {"fail_clear", "clear"}
    /\ listener' = None
    /\ ppc' = [ppc EXCEPT ![m][j] = "done"]
    /\ UNCHANGED probeVars
    /\ UNCHANGED devVars
    /\ UNCHANGED <<status, current_meeting_id, minutes_data, writes, nextId, hpc,
                   orig, lisVars, fileExists, capVars, ptext, spc, stopAcc>>

\* app.py:51: process_transcript returns.
ProcessTranscript(m, j) ==
    /\ ppc[m][j] = "process"
    /\ ppc' = [ppc EXCEPT ![m][j] = "store"]
    /\ UNCHANGED probeVars
    /\ UNCHANGED devVars
    /\ UNCHANGED <<appVars, nextId, hpc, orig, lisVars, fileExists, capVars, ptext,
                   spc, stopAcc>>

\* app.py:51: process_transcript raises (nlp_processor.py:45, 71 call the
\* models unguarded); the pipeline thread dies with the exception.
ProcessRaises(m, j) ==
    /\ ppc[m][j] = "process"
    /\ ppc' = [ppc EXCEPT ![m][j] = "crashed"]
    /\ UNCHANGED probeVars
    /\ UNCHANGED devVars
    /\ UNCHANGED <<appVars, nextId, hpc, orig, lisVars, fileExists, capVars, ptext,
                   spc, stopAcc>>

\* The value app.py:62 stores for pipeline (m, j).
StoredMinutes(m, j) ==
    final_minutes(j, Transcription(ptext[m][j]), process_transcript(ptext[m][j]))

\* app.py:53-62: minutes_data[meeting_id] = final_minutes.
StoreMinutes(m, j) ==
    /\ ppc[m][j] = "store"
    /\ minutes_data' = [minutes_data EXCEPT ![j] = StoredMinutes(m, j)]
    /\ writes' = [writes EXCEPT ![j] = @ + 1]
    /\ ppc' = [ppc EXCEPT ![m][j] = "set_idle"]
    /\ UNCHANGED probeVars
    /\ UNCHANGED devVars
    /\ UNCHANGED <<status, current_meeting_id, listener, nextId, hpc, orig, lisVars,
                   fileExists, capVars, ptext, spc, stopAcc>>

\* app.py:63: status = "idle" on the success path.
SetIdle(m, j) ==
    /\ ppc[m][j] = "set_idle"
    /\ status' = "idle"
    /\ ppc' = [ppc EXCEPT ![m][j] = "clear"]
    /\ UNCHANGED probeVars
    /\ UNCHANGED devVars
    /\ UNCHANGED <<current_meeting_id, minutes_data, listener, writes, nextId, hpc,
                   orig, lisVars, fileExists, capVars, ptext, spc, stopAcc>>

\* A request handler is running.
HandlerInFlight ==
    \/ \E m \in Sessions : hpc[m] \notin {"none", "sr_done", "up_done", "error"}
    \/ \E r \in StopReqs : spc[r] # "idle"

\* ------------------------------------------------------------ specification
\* A request arrives and passes the check of its handler.
Request ==
    \/ StartRecordingCheck
    \/ UploadCheck
    \/ \E r \in StopReqs : StopCheck(r)

\* A request arrives and is answered at once: refused, or a /minutes lookup.
\* These steps write reply only, which no other step reads.
Answer ==
    \/ StartRecordingBusy
    \/ UploadRejected
    \/ \E r \in StopReqs : StopRejected(r)
    \/ \E j \in Sessions : GetMinutes(j)

Handler ==
    \/ \E m \in Sessions : SrCreate(m)
    \/ \E m \in Sessions : SrGetSave(m)
    \/ \E m \in Sessions : SrSetSave(m)
    \/ \E m \in Sessions : SrStart(m)
    \/ \E m \in Sessions : SrSetStatus(m)
    \/ \E m \in Sessions : UploadSetStatus(m)
    \/ \E m \in Sessions : UploadSpawn(m)
    \/ \E r \in StopReqs : StopCall(r)
    \/ \E r \in StopReqs : StopSet(r)

Capture ==
    \/ \E m \in Sessions : OpenStream(m)
    \/ \E m \in Sessions : OpenFails(m)
    \/ \E m \in Sessions : LoopTest(m)
    \/ \E m \in Sessions : ReadChunk(m)
    \/ \E m \in Sessions : ReadFails(m)
    \/ \E m \in Sessions : SaveRecording(m)

Pipeline ==
    \/ \E m \in Sessions, j \in Sessions : Transcribe(m, j)
    \/ \E m \in Sessions, j \in Sessions : FailSetIdle(m, j)
    \/ \E m \in Sessions, j \in Sessions : FailStore(m, j)
    \/ \E m \in Sessions, j \in Sessions : ProcessTranscript(m, j)
    \/ \E m \in Sessions, j \in Sessions : ProcessRaises(m, j)
    \/ \E m \in Sessions, j \in Sessions : StoreMinutes(m, j)
    \/ \E m \in Sessions, j \in Sessions : SetIdle(m, j)
    \/ \E m \in Sessions, j \in Sessions : ClearListener(m, j)

Next == Request \/ Handler \/ Capture \/ Pipeline

Spec == Init /\ [][Next]_vars

\* The client sends a request only after the previous one was answered; the
\* capture and pipeline threads run beside the one handler as before.
SerialNext == (~HandlerInFlight /\ Request) \/ Handler \/ Capture \/ Pipeline

SerialSpec == Init /\ [][SerialNext]_vars

\* The same client, its refused requests and its /minutes lookups included.
ClientNext == SerialNext \/ Answer

ClientSpec == Init /\ [][ClientNext]_vars

\* An AudioListener on its own (audio_listener.py:110-118 and
\* test_minutemate.py:117-130): a caller other than app.py owns the listener,
\* whose _save_recording is the one of the class, and calls start() and
\* stop() on it whenever it likes.
TheListener == 1

\* listener.start(); the thread it may start is the next one not yet used.
CallStart ==
    /\ \E m \in Sessions :
          /\ cpc[m] = "none"
          /\ \A n \in 1..(m - 1) : cpc[n] # "none"
          /\ start(TheListener, m)
    /\ UNCHANGED probeVars
    /\ UNCHANGED devVars
    /\ UNCHANGED <<appVars, nextId, hpc, orig, saveAttr, frames, silence_start_time,
                   fileExists, pipeVars, spc, stopAcc>>

\* The capture threads of listener k that are inside stream.read
\* (audio_listener.py:47).
Reading(k) == {m \in Sessions : clis[m] = k /\ cpc[m] = "read"}

\* listener.stop(); the first call that finds the listener recording is
\* noted, with the length of the buffer and the reads in progress as it
\* returns.
CallStop ==
    /\ stop(TheListener)
    /\ stop_seen' = IF recording[TheListener] /\ ~stop_seen.called
                    THEN [called |-> TRUE,
                          len |-> Len(frames[TheListener]),
                          reading |-> Cardinality(Reading(TheListener))]
                    ELSE stop_seen
    /\ UNCHANGED <<reply, timeVars, unitVars>>
    /\ UNCHANGED devVars
    /\ UNCHANGED <<appVars, nextId, hpc, orig, saveAttr, frames, silence_start_time,
                   fileExists, capVars, pipeVars, spc, stopAcc>>

\* audio_listener.py:79-84: wave.open or writeframes raises, the disk being
\* full or the path not writable; a failure looked at for the listener on
\* its own.  The exception leaves _save_recording
\* before line 86 and every save_and_process above it before line 128, so
\* the buffer is kept and no pipeline is started; the file is there, with
\* no frames in it, when wave.open had succeeded.
FlushFails(m) ==
    /\ cpc[m] \in {"save", "except"}
    /\ LET b == BottomListener(saveAttr[clis[m]])
       IN /\ frames[b] # <<>>
          /\ \E opened \in BOOLEAN :
                IF opened
                THEN /\ fileExists' = [fileExists EXCEPT ![b] = TRUE]
                     /\ wav' = [wav EXCEPT ![b] = <<>>]
                ELSE UNCHANGED <<fileExists, wav>>
    /\ cpc' = [cpc EXCEPT ![m] = "failed"]
    /\ UNCHANGED probeVars
    /\ UNCHANGED stream
    /\ UNCHANGED <<appVars, nextId, hpc, orig, lisVars, clis, pipeVars, spc, stopAcc>>

ListenerNext ==
    \/ CallStart
    \/ CallStop
    \/ Capture
    \/ \E m \in Sessions : FlushFails(m)

ListenerSpec == Init /\ [][ListenerNext]_vars

\* ------------------------------------------- the silence timer, on a clock
\* audio_listener.py:57: time.time() - self.silence_start_time >
\* self.SILENCE_SECONDS, more than the limit by a little.
Expired_early(now, since) == now - since > SILENCE_SECONDS - 2

\* audio_listener.py:57: time.time() - self.silence_start_time >
\* self.SILENCE_SECONDS.
Expired(now, since) == now - since > SILENCE_SECONDS

\* A listener has been started (audio_listener.py:93) and its loop runs
\* against a clock that the test moves; no chunk has been read yet.
TimedInit ==
    /\ AppInit
    /\ reply = NoReply
    /\ clock = 1
    /\ t_recording = TRUE
    /\ t_silence_start_time = None
    /\ last_sound = None
    /\ last_read = None
    /\ UnitIdle
    /\ stop_seen = NoStop

\* The simulated clock moves on by one second.
Tick ==
    /\ clock < MaxClock
    /\ clock' = clock + 1
    /\ UNCHANGED <<mainVars, reply, stop_seen, unitVars, t_recording,
                   t_silence_start_time, last_sound, last_read>>

\* audio_listener.py:46-61: one pass of the loop at the present clock
\* reading, the chunk read being silent (rms < SILENCE_THRESHOLD) or not.
TimedChunk(silent) ==
    /\ t_recording
    /\ IF silent
       THEN IF t_silence_start_time = None
            THEN /\ t_silence_start_time' = clock
                 /\ UNCHANGED t_recording
            ELSE IF Expired(clock, t_silence_start_time)
                 THEN /\ t_recording' = FALSE
                      /\ UNCHANGED t_silence_start_time
                 ELSE UNCHANGED <<t_silence_start_time, t_recording>>
       ELSE /\ t_silence_start_time' = None
            /\ UNCHANGED t_recording
    /\ last_sound' = IF silent THEN last_sound ELSE clock
    /\ last_read' = clock
    /\ UNCHANGED <<mainVars, reply, stop_seen, unitVars, clock>>

SilenceNext ==
    \/ Tick
    \/ \E silent \in BOOLEAN : TimedChunk(silent)

SilenceSpec == TimedInit /\ [][SilenceNext]_vars

\* ----------------------------------------- the two functions, on their own
\* Sample values (np.int16) around the threshold and far from it.
Samples == {-16384, -501, -500, -499, 0, 499, 500, 501, 16384}

\* The ends of the int16 range.
Int16Extremes == {-32768, 32767}

\* The chunks handed to the silence test.
Chunks == UNION {[1..n -> Samples] : n \in 1..MaxSamples}

\* x ** 2 computed in 16-bit integers, wrapping.
Square_int16(x) == ((x * x + 32768) % 65536) - 32768

\* audio_listener.py:52: audio_data.astype(float) ** 2, one sample; a float64
\* holds the square of any int16 exactly.
Square(x) == x * x

\* audio_listener.py:52: the sum np.mean forms of the squares.
RECURSIVE SumSquares(_)
SumSquares(d) ==
    IF d = <<>> THEN 0 ELSE Square(Head(d)) + SumSquares(Tail(d))

\* The largest r in lo..hi with r * r <= n.
RECURSIVE SqrtBetween(_, _, _)
SqrtBetween(n, lo, hi) ==
    IF lo = hi
    THEN lo
    ELSE LET mid == (lo + hi + 1) \div 2
         IN IF mid * mid <= n
            THEN SqrtBetween(n, mid, hi)
            ELSE SqrtBetween(n, lo, mid - 1)

\* audio_listener.py:52: the whole part of np.sqrt(np.mean(...)); the mean of
\* int16 squares is at most 2^30.
rms(d) == SqrtBetween(SumSquares(d) \div Len(d), 0, 32768)

\* audio_listener.py:54: rms < self.SILENCE_THRESHOLD; the threshold being
\* whole, the test on the whole part of rms gives the same answer.
IsSilent(d) == rms(d) < SILENCE_THRESHOLD

\* test_minutemate.py:80-96 and the like: a call of the transcription on a
\* path that exists or not, with a step that raises or none, and the result
\* whisper.transcribe would give.
EngineInputs ==
    [exists : BOOLEAN, fails : Failures, result : {Transcription(t) : t \in 0..MaxText}]

UnitInit ==
    /\ AppInit
    /\ reply = NoReply
    /\ TimeIdle
    /\ audio_data \in Chunks
    /\ rms_verdict = "none"
    /\ engine_in \in EngineInputs
    /\ engine_out = NotCalled
    /\ stop_seen = NoStop

\* audio_listener.py:51-54: the chunk is classified.
Classify ==
    /\ rms_verdict = "none"
    /\ rms_verdict' = IF IsSilent(audio_data) THEN "silent" ELSE "loud"
    /\ UNCHANGED <<mainVars, reply, stop_seen, timeVars, audio_data, engine_in, engine_out>>

\* transcription_engine.py:20-63: the call returns.
CallEngine ==
    /\ ~engine_out.done
    /\ LET r == transcribe_audio_with_timestamps(engine_in.exists, engine_in.fails,
                                                 engine_in.result)
       IN engine_out' = [done |-> TRUE, ret |-> r.ret, calls |-> r.calls,
                         raised |-> r.raised]
    /\ UNCHANGED <<mainVars, reply, stop_seen, timeVars, audio_data, rms_verdict, engine_in>>

UnitNext == Classify \/ CallEngine

UnitSpec == UnitInit /\ [][UnitNext]_vars

\* ------------------------------------------------------------ vocabulary
\* The capture thread started by handler m is inside _recording_loop's try
\* block: opening the device, or in the while loop with the stream open.
CaptureRunning(m) == cpc[m] \in {"open", "loop", "read"}

\* An active capture session: a listener whose recording flag is set and
\* whose capture loop has not exited.
ActiveSession(m) == CaptureRunning(m) /\ recording[clis[m]]

\* The capture thread started by handler m has ended.
CaptureEnded(m) == cpc[m] \in {"exited", "failed"}

\* A pipeline thread exists for (m, j).
PipelineStarted(m, j) == ppc[m][j] # "none"

\* It is running and has not yet written status itself.
PipelineRunning(m, j) ==
    ppc[m][j] \in {"transcribe", "process", "store", "set_idle", "fail_idle"}

PipelineEnded(m, j) == ppc[m][j] \in {"done", "crashed"}

\* No handler, capture thread or pipeline thread has a step left to take.
Quiescent ==
    /\ \A m \in Sessions : hpc[m] \in {"none", "sr_done", "up_done", "error"}
    /\ \A r \in StopReqs : spc[r] = "idle"
    /\ \A m \in Sessions : cpc[m] = "none" \/ CaptureEnded(m)
    /\ \A m \in Sessions, j \in Sessions : ppc[m][j] = "none" \/ PipelineEnded(m, j)

\* Quiescent with every request refused from now on: /start_recording and
\* /upload_audio want status "idle", /stop_recording wants "recording".
Stuck == Quiescent /\ status = "processing"

\* The device and the collaborators have not failed: no capture thread went
\* through the except clause and no pipeline thread died.
NoFailure ==
    /\ \A m \in Sessions : cpc[m] \notin {"except", "failed"}
    /\ \A m \in Sessions, j \in Sessions : ppc[m][j] # "crashed"

\* ------------------------------------------------------------------ C1
\* C1: a /start_recording request that finds status other than "idle" is
\* refused, and at no time are two capture threads inside _recording_loop
\* (opening the device or reading from it) at once.
C1_OneCaptureSession ==
    /\ status # "idle" => ~ENABLED StartRecordingCheck
    /\ Cardinality({m \in Sessions : CaptureRunning(m)}) <= 1

\* ------------------------------------------------------------------ C2
\* C2: once /stop_recording has been accepted for a session and neither the
\* device nor a collaborator fails, the system does not come to rest in
\* "processing": it ends with a result stored for that session and status
\* "idle".
C2_StopLeadsToResult ==
    \A k \in stopAcc :
        (Stuck /\ NoFailure) => (minutes_data[k] # NoResult /\ status = "idle")

\* ------------------------------------------------------------------ C3
\* C3: when the capture thread of a session was stopped before it read a
\* chunk and so flushed an empty buffer (it left the loop and the session's
\* file was never written), the system does not come to rest without an
\* error result for that session.
C3_EmptyFlushRecorded ==
    \A m \in Sessions :
        (cpc[m] = "exited" /\ ~fileExists[clis[m]] /\ Stuck /\ NoFailure)
            => minutes_data[clis[m]] = ErrorResult

\* ------------------------------------------------------------------ C4
\* C4: when the capture thread has ended through a device failure, the
\* session's recording flag is clear, and the system does not come to rest
\* without a result for that session.
C4_DeviceFailureRecorded ==
    \A m \in Sessions :
        cpc[m] = "failed" =>
            /\ ~recording[clis[m]]
            /\ Stuck => minutes_data[clis[m]] # NoResult

\* ------------------------------------------------------------------ C5
\* Meeting id j was issued by /upload_audio.
IsUpload(j) == hpc[j] \in {"up_status", "up_spawn", "up_done"}

\* The pipeline of upload j has stored the minutes of a non-empty transcript.
UploadStored(j) ==
    IsUpload(j) /\ ptext[j][j] # 0 /\ ppc[j][j] \in {"set_idle", "clear", "done"}

\* The result of upload j holds what the collaborators returned for the
\* transcript ptext[j][j], and /minutes/<j> returns it.
UploadResultExact(j) ==
    /\ minutes_data[j].meeting_id = j
    /\ minutes_data[j].full_transcript = ptext[j][j]
    /\ minutes_data[j].timed_transcript = Transcription(ptext[j][j]).segments
    /\ minutes_data[j].summary = process_transcript(ptext[j][j]).summary
    /\ minutes_data[j].action_items = process_transcript(ptext[j][j]).action_items
    /\ minutes_data[j].reminders = process_transcript(ptext[j][j]).reminders
    /\ get_minutes(j) = minutes_data[j]

\* The steps of the handler and of the pipeline thread of upload j.
UploadThread(j) ==
    \/ UploadSetStatus(j)
    \/ UploadSpawn(j)
    \/ Transcribe(j, j)
    \/ FailSetIdle(j, j)
    \/ FailStore(j, j)
    \/ ProcessTranscript(j, j)
    \/ ProcessRaises(j, j)
    \/ StoreMinutes(j, j)
    \/ SetIdle(j, j)
    \/ ClearListener(j, j)

\* How far the handler and the pipeline of an upload have come.
UploadRank(h, p) ==
    CASE h = "up_status" -> 0
      [] h = "up_spawn" -> 1
      [] p = "transcribe" -> 2
      [] p \in {"process", "fail_idle"} -> 3
      [] p \in {"store", "fail_store"} -> 4
      [] p \in {"set_idle", "fail_clear"} -> 5
      [] p = "clear" -> 6
      [] OTHER -> 7

\* C5: an accepted upload sets status to "processing" and then starts the
\* pipeline on the uploaded file; when the transcription returns text and
\* the summarization returns, the result stored for the upload's id holds
\* exactly what the two collaborators returned, /minutes returns it, and
\* status comes back to "idle": the upload's handler and pipeline are never
\* blocked, every step of theirs takes them further, and the step after the
\* store leaves status "idle" with that result in place.
C5_UploadYieldsResult ==
    /\ [](\A j \in Sessions : UploadStored(j) => UploadResultExact(j))
    /\ [](\A j \in Sessions :
            (IsUpload(j) /\ ~PipelineEnded(j, j)) => ENABLED UploadThread(j))
    /\ [][\A j \in Sessions :
            /\ (hpc[j] = "up_status" /\ hpc'[j] # "up_status")
                   => (status' = "processing" /\ fileExists[j])
            /\ (hpc[j] = "up_spawn" /\ hpc'[j] # "up_spawn")
                   => ppc'[j][j] = "transcribe"
            /\ (IsUpload(j) /\ ppc[j][j] = "transcribe" /\ ptext'[j][j] # 0)
                   => ppc'[j][j] = "process"
            /\ (IsUpload(j) /\ ppc[j][j] = "set_idle" /\ ppc'[j][j] # "set_idle")
                   => (status' = "idle" /\ UploadStored(j)' /\ UploadResultExact(j)')
            /\ (IsUpload(j) /\ <<hpc[j], ppc[j][j]>> # <<hpc'[j], ppc'[j][j]>>)
                   => UploadRank(hpc'[j], ppc'[j][j]) > UploadRank(hpc[j], ppc[j][j])
         ]_vars

\* An upload has run to the end with its minutes stored and status "idle".
C5_Witness ==
    \E j \in Sessions :
        /\ IsUpload(j) /\ ppc[j][j] = "done" /\ ptext[j][j] # 0
        /\ minutes_data[j].kind = "minutes"
        /\ status = "idle"

\* ------------------------------------------------------------------ C6
\* C6: status is "recording" exactly when an active capture session exists;
\* stated for the states in which every request has been answered and
\* nothing has failed, the silence-triggered stop among them.
C6_RecordingIffActive ==
    (~HandlerInFlight /\ NoFailure) =>
        ((status = "recording") <=> (\E m \in Sessions : ActiveSession(m)))

\* ------------------------------------------------------------------ C7
\* C7: while a pipeline thread is running, status is "processing"; stated
\* for the states in which every request has been answered and nothing has
\* failed.
C7_ProcessingWhilePipeline ==
    (~HandlerInFlight /\ NoFailure) =>
        \A m \in Sessions, j \in Sessions :
            PipelineRunning(m, j) => status = "processing"

\* ------------------------------------------------------------------ C8
\* C8: status is never "idle" while a started pipeline has not yet stored the
\* result of its meeting id.
C8_ResultBeforeIdle ==
    \A m \in Sessions, j \in Sessions :
        (status = "idle" /\ PipelineStarted(m, j)) => minutes_data[j] # NoResult

\* ------------------------------------------------------------------ C9
\* C9: /stop_recording is accepted exactly when status is "recording".
C9_StopAcceptedIffRecording ==
    \A r \in StopReqs :
        spc[r] = "idle" => (ENABLED StopCheck(r) <=> status = "recording")

\* ------------------------------------------------------------------ C10
\* C10: minutes_data[j] is assigned at most once: at most one pipeline is
\* ever started for a meeting id, and a stored result never changes.
C10_WrittenOnce ==
    \A j \in Sessions :
        /\ writes[j] <= 1
        /\ Cardinality({m \in Sessions : PipelineStarted(m, j)}) <= 1

\* ------------------------------------------------------------------ C11
\* The pipeline that m dispatched for id j has assigned minutes_data[j].
HasStored(m, j) == ppc[m][j] \in {"fail_clear", "set_idle", "clear", "done"}

\* body is a whole result for id j: the error marker, or minutes with all
\* six fields as the two collaborators returned them for one transcript.
CompleteResult(j, body) ==
    \/ body = ErrorResult
    \/ \E t \in 1..MaxText :
          body = final_minutes(j, Transcription(t), process_transcript(t))

\* C11: /minutes/<id> answers 404 for an id that was never issued and for an
\* issued id no pipeline has stored a result for yet; any other answer is a
\* whole result of that id, the one stored; and the lookup changes neither
\* status, current_meeting_id nor minutes_data.
C11_LookupReadOnly ==
    /\ [](reply.route = "minutes" =>
            (reply.body.kind = "404" \/ CompleteResult(reply.id, reply.body)))
    /\ [][\A j \in Sessions : GetMinutes(j) =>
            /\ UNCHANGED <<status, current_meeting_id, minutes_data, listener>>
            /\ j > nextId => reply'.body.kind = "404"
            /\ (\A m \in Sessions : ~HasStored(m, j)) => reply'.body.kind = "404"
            /\ (\E m \in Sessions : HasStored(m, j)) => reply'.body = minutes_data[j]
         ]_vars

\* A lookup of an issued id got 404 while that id's pipeline stands just
\* before its store.
C11_Witness ==
    \E m \in Sessions, j \in Sessions :
        /\ reply = Response("minutes", j, [kind |-> "404"])
        /\ ppc[m][j] = "store"
        /\ minutes_data[j] = NoResult

\* ------------------------------------------------------------------ C12
\* C12: a /start_recording or /upload_audio request that finds status other
\* than "idle", and a /stop_recording request that finds status other than
\* "recording", is refused and takes no other step; the refusal changes
\* neither status, current_meeting_id, the listener global nor minutes_data.
C12_RejectedUnchanged ==
    /\ [](status # "idle" => (~ENABLED StartRecordingCheck /\ ~ENABLED UploadCheck))
    /\ [](status # "recording" => \A r \in StopReqs : ~ENABLED StopCheck(r))
    /\ [][(StartRecordingBusy \/ UploadRejected \/ \E r \in StopReqs : StopRejected(r))
            => /\ UNCHANGED <<status, current_meeting_id, listener, minutes_data>>
               /\ reply'.body.kind \in {"400", "409"}
         ]_vars

\* /stop_recording was refused while a recording is being processed, and
\* status is still "processing".
C12_Witness ==
    /\ reply = Response("stop_recording", None, [kind |-> "400"])
    /\ status = "processing"
    /\ \E m \in Sessions, j \in Sessions : PipelineRunning(m, j)

\* ------------------------------------------------------------------ C13
\* The loop reads a silent chunk while the silence timer is set.
SilentPass ==
    TimedChunk(TRUE) /\ t_silence_start_time # None

\* How long the silence had lasted when the latest chunk was read.
SilenceHeard == last_read - t_silence_start_time

\* C13 as the code has it: the listener stops itself, without a call of
\* stop(), exactly on a silent chunk read more than 30 seconds after the
\* first silent chunk since the last sound, so it is never still recording
\* once it has read a chunk after more than 30 seconds of silence; the timer
\* is always that first silent chunk, so no stop comes within 30 seconds of
\* a sound, and a sound every 29 seconds keeps the listener recording.
C13_AutoStopAfterSilence ==
    /\ [](t_silence_start_time # None =>
            /\ t_silence_start_time <= last_read
            /\ last_sound # None => t_silence_start_time >= last_sound
            /\ t_recording => SilenceHeard <= SILENCE_SECONDS)
    /\ [][(t_recording /\ ~t_recording')
            => /\ SilentPass
               /\ clock - t_silence_start_time > SILENCE_SECONDS
               /\ last_sound # None => clock - last_sound > SILENCE_SECONDS
         ]_vars

\* The listener has stopped itself on a chunk read 31 seconds after the
\* first silent chunk that followed a sound.
C13_Witness ==
    /\ ~t_recording
    /\ last_sound # None
    /\ t_silence_start_time >= last_sound
    /\ SilenceHeard = SILENCE_SECONDS + 1

\* C13 as stated: a listener that has read silent chunks only for at least
\* 30 seconds has stopped itself.
C13_StopsAtThirtySeconds ==
    (t_recording /\ t_silence_start_time # None) => SilenceHeard < SILENCE_SECONDS

\* ------------------------------------------------------------------ C14
\* The sum of the squares of the samples, in whole numbers.
RECURSIVE ExactSumSquares(_)
ExactSumSquares(d) ==
    IF d = <<>> THEN 0 ELSE Head(d) * Head(d) + ExactSumSquares(Tail(d))

\* C14: a chunk is classified as silent exactly when the sum of its squared
\* samples is less than threshold^2 times the number of samples, that is
\* when its root-mean-square is strictly below the threshold; a chunk whose
\* RMS is the threshold is not silent; and the square the test forms of a
\* sample, the ends of the int16 range included, is the true square.
C14_SilentIffBelowThreshold ==
    rms_verdict # "none" =>
        LET bound == SILENCE_THRESHOLD * SILENCE_THRESHOLD * Len(audio_data)
            heard == {audio_data[i] : i \in 1..Len(audio_data)}
        IN /\ (rms_verdict = "silent") <=> (ExactSumSquares(audio_data) < bound)
           /\ ExactSumSquares(audio_data) = bound => rms_verdict = "loud"
           /\ \A x \in heard \cup Int16Extremes : Square(x) = x * x

\* A chunk of two samples whose RMS is the threshold itself, one sample
\* negative, has been classified as not silent.
C14_Witness ==
    /\ rms_verdict = "loud"
    /\ Len(audio_data) = 2
    /\ audio_data[1] < 0
    /\ ExactSumSquares(audio_data) =
           SILENCE_THRESHOLD * SILENCE_THRESHOLD * Len(audio_data)

\* ------------------------------------------------------------------ C15
\* The capture thread of m has a step to take.
CaptureStep(m) ==
    \/ OpenStream(m)
    \/ LoopTest(m)
    \/ ReadChunk(m)
    \/ SaveRecording(m)

\* C15: once the recording flag of a session is clear its capture thread is
\* never blocked on the way out, and the step in which it leaves through the
\* flush puts the whole frame buffer, chunk for chunk in buffer order, into
\* the output file.
C15_StopFlushesBuffer ==
    /\ [](\A m \in Sessions :
            ((CaptureRunning(m) \/ cpc[m] = "save") /\ ~recording[clis[m]])
                => ENABLED CaptureStep(m))
    /\ [][\A m \in Sessions :
            (cpc[m] = "save" /\ cpc'[m] = "exited")
                => /\ fileExists'[clis[m]]
                   /\ wav'[clis[m]] = frames[clis[m]]
         ]_vars

\* ------------------------------------------------------------------ C16
\* C16: when a capture thread has left the loop and ended, the output file
\* of its session exists, the buffer having been empty or not.
C16_FileOnEveryExit ==
    \A m \in Sessions : cpc[m] = "exited" => fileExists[clis[m]]

\* ------------------------------------------------------------------ C17
\* C17: when a capture thread has ended, by the stop flag or by a failed
\* read, the stream it opened is not left open.
C17_StreamClosed ==
    \A m \in Sessions : CaptureEnded(m) => stream[m] # "open"

\* ------------------------------------------------------------------ C18
\* C18: when a pipeline thread has ended through an exception of the
\* summarization, an error result is stored under its meeting id, and the
\* system does not come to rest with status other than "idle".
C18_FailureRecorded ==
    \A m \in Sessions, j \in Sessions :
        ppc[m][j] = "crashed" =>
            /\ minutes_data[j] = ErrorResult
            /\ Quiescent => status = "idle"

\* ------------------------------------------------------------------ C19
\* C19: a call of transcribe_audio_with_timestamps never raises; when the
\* file exists and no step raises it has called whisper.transcribe once and
\* returns that call's result unchanged; when the file is missing or a step
\* raises it returns the empty dictionary, having called whisper.transcribe
\* at most once, and process_audio_pipeline takes that for a failed
\* transcription.
C19_EngineResultOrEmpty ==
    engine_out.done =>
        /\ ~engine_out.raised
        /\ IF engine_in.exists /\ engine_in.fails = "none"
           THEN /\ engine_out.ret = engine_in.result
                /\ engine_out.calls = 1
           ELSE /\ engine_out.ret = EmptyDict
                /\ engine_out.calls <= 1
                /\ ~engine_in.exists => engine_out.calls = 0
                /\ TranscriptionFailed(engine_out.ret)

\* whisper.transcribe raised on a file that exists, and the call has
\* returned the empty dictionary.
C19_Witness ==
    /\ engine_out.done
    /\ engine_in.exists
    /\ engine_in.fails = "transcribe"
    /\ engine_out.ret = EmptyDict
    /\ engine_out.calls = 1

\* ------------------------------------------------------------------ C20
\* C20: a listener gets at most one capture thread in its life: start()
\* starts a thread only on a listener never started before, so never on one
\* that is recording and never again on one that was stopped.
C20_OneWayLifecycle ==
    \A k \in Sessions : Cardinality({m \in Sessions : clis[m] = k}) <= 1

\* ------------------------------------------------------------------ C21
\* The capture threads of listener k have all left through the loop test
\* and the flush.
LeftByStop(k) ==
    /\ \E m \in Sessions : clis[m] = k
    /\ \A m \in Sessions : clis[m] = k => cpc[m] = "exited"

\* C21: once a caller's stop() has returned on a recording listener, no
\* capture thread of that listener passes the loop test into a new read;
\* only a read in progress at that moment, one at most, is still appended,
\* so the buffer never holds more than one chunk beyond what it held; and
\* when stop() came between two passes with k chunks in the buffer, k at
\* least 1, and the threads have left, the output file holds k chunks.
C21_StopIsCooperative ==
    /\ [](stop_seen.called =>
            /\ stop_seen.reading <= 1
            /\ Len(frames[TheListener]) <= stop_seen.len + stop_seen.reading
            /\ (stop_seen.reading = 0 /\ stop_seen.len >= 1 /\ LeftByStop(TheListener))
                   => /\ fileExists[TheListener]
                      /\ Len(wav[TheListener]) = stop_seen.len)
    /\ [][stop_seen.called =>
            \A m \in Sessions :
                clis[m] = TheListener => ~(cpc[m] = "loop" /\ cpc'[m] = "read")
         ]_vars

\* ------------------------------------------------------------------ C22
\* Sequence s is the beginning of sequence t.
IsPrefix(s, t) == Len(s) <= Len(t) /\ SubSeq(t, 1, Len(s)) = s

\* A capture thread of listener k is before or inside its loop.
Capturing(k) == \E m \in Sessions : clis[m] = k /\ CaptureRunning(m)

\* C22: while a capture loop of a session runs its buffer only grows at the
\* end; the buffer changes only in a read or a flush made by a capture
\* thread of that session; it is emptied only in a step that has put all of
\* it into the output file, and a flush that fails leaves it as it was; and
\* no thread flushes the buffer while a capture loop of the session runs.
C22_BufferOwnedByLoop ==
    [][/\ \A k \in Sessions :
            /\ Capturing(k) => IsPrefix(frames[k], frames'[k])
            /\ frames'[k] # frames[k]
                  => \E m \in Sessions :
                         clis[m] = k /\ (ReadChunk(m) \/ SaveRecording(m))
            /\ (frames[k] # <<>> /\ frames'[k] = <<>>)
                  => fileExists'[k] /\ wav'[k] = frames[k]
       /\ \A m \in Sessions :
            /\ FlushFails(m) => frames' = frames
            /\ (SaveRecording(m) \/ FlushFails(m))
                  => ~Capturing(BottomListener(saveAttr[clis[m]]))
      ]_vars

\* ------------------------------------------------------------------ C23
\* The pipeline threads that have started and not yet ended.
LivePipelines ==
    {p \in Sessions \X Sessions :
        PipelineStarted(p[1], p[2]) /\ ~PipelineEnded(p[1], p[2])}

\* C23: at no time are two process_audio_pipeline threads alive at once.
C23_OnePipeline == Cardinality(LivePipelines) <= 1

====
